---- MODULE Spec2Model ----
(***************************************************************************)
(* atfrunner: the Runner of runner.go driven by main() of main.go.         *)
(* The Runner is one record r; the file system under the working directory *)
(* is fs; the collector, the executor, the renderer and the operating      *)
(* system are the environment, whose outcomes are chosen with \E.          *)
(***************************************************************************)
EXTENDS Integers, Sequences, FiniteSets, TLC

\* ------------------------------------------------------------------ bounds
MaxCalls == 2      \* callback invocations the executor makes in one Execute
MaxOldLen == 5     \* length of a report file left over from an earlier run

\* ------------------------------------------------------------ value spaces
Inputs == {"", "cfg.json"}              \* -i flag, main.go:16
SyslogTargets == {"", "10.0.0.1"}       \* -s flag, main.go:19
\* argument lists the executor may hand to the logging callback
CbParams == {<<>>, <<"notice">>, <<"info", "m1">>, <<"error", "m2", "extra">>}
ReportFiles == {"report.html", "report.xml", "report.json"}
Workdirs == {""}                        \* -w flag, main.go:17 (its default)
OldData == [i \in 1..MaxOldLen |-> "old"]
FileStates == {[exists |-> FALSE, data |-> <<>>], [exists |-> TRUE, data |-> OldData]}

\* utils.Severity values used by runner.go:112-116 and :157-158
defSyslogLevel == "Notice"
defFileLevel == "Informational"
defStreamLevel == "Notice"
mandatoryCSS == "cfg/always.css"
userCSS == "cfg/report_def.css"

NoErr == ""
NullTS == [null |-> TRUE, Name |-> ""]
TheTS == [null |-> FALSE, Name |-> "suiteA"]
NullTR == [null |-> TRUE, TestSet |-> NullTS, Started |-> 0, Finished |-> 0]

\* r: the Runner; fs: the working directory and the calls made to the collector,
\* the renderer, the handler constructors and the operating system, with their
\* outcomes; pc: the position of main; err: the error main got from initialize;
\* phases: the Runner methods main has called; cbs: the argument lists the
\* executor has passed to the logging callback; clock: utils.Now()
VARIABLES r, fs, pc, err, exitCode, phases, cbs, clock

vars == <<r, fs, pc, err, exitCode, phases, cbs, clock>>

\* one call to a collaborator outside the Runner, and whether it succeeded
Op(fsys, op, arg, ok) == [fsys EXCEPT !.ops = Append(@, [op |-> op, arg |-> arg, ok |-> ok])]

\* ---------------------------------------------------------------- logger
\* utils.NewLog(): a pipeline with no handlers, not started, not closed
\* deliv: which handler (h) received which call (n), in the order of reception
NewLog == [Handlers |-> <<>>, started |-> FALSE, closed |-> FALSE, calls |-> <<>>,
           deliv |-> <<>>]

\* utils.Severity as a total order: Debug < Informational < Notice < Warning < Error
Rank(sev) ==
    CASE sev = "Debug" -> 0
      [] sev = "Informational" -> 1
      [] sev = "Notice" -> 2
      [] sev = "Warning" -> 3
      [] sev = "Error" -> 4

\* the severity of a log call: the name of the convenience call, or the level
\* string handed to LogS
SeverityOf(lvl) ==
    CASE lvl = "debug" -> "Debug"
      [] lvl = "info" -> "Informational"
      [] lvl = "notice" -> "Notice"
      [] lvl = "warning" -> "Warning"
      [] lvl = "error" -> "Error"
      [] OTHER -> lvl

\* a handler with minimum severity min takes a call of level lvl
Accepts(min, lvl) == Rank(SeverityOf(lvl)) >= Rank(min)

\* log(severity, message): call number n goes, in insertion order, to every
\* handler that accepts its severity
Deliver(hs, lvl, n) ==
    SelectSeq([k \in DOMAIN hs |-> [h |-> k, n |-> n]],
              LAMBDA d : Accepts(hs[d.h].level, lvl))

\* one call of the pipeline: r.logger.Notice(..), .Warning(..), .Error(..), .LogS(..)
LogCall(logger, lvl, msg, arg, src) ==
    [logger EXCEPT !.calls = Append(@, [lvl |-> lvl, msg |-> msg, arg |-> arg,
                                         src |-> src,
                                         started |-> logger.started,
                                         closed |-> logger.closed]),
                   !.deliv = @ \o Deliver(logger.Handlers, lvl, Len(logger.calls) + 1)]

\* r.logger.AddHandler(h): the collection with h appended
AddHandler(logger, h) == Append(logger.Handlers, h)

\* ------------------------------------------------------------- NewRunner
NewRunner(input, workdir, syslog, xml, json, debug) ==
    [tr |-> NullTR, input |-> input, workdir |-> workdir, syslog |-> syslog,
     xml |-> xml, json |-> json, par |-> FALSE, debug |-> debug,
     logger |-> NewLog]

\* atf.CreateTestReport(ts)
CreateTestReport(ts) == [null |-> FALSE, TestSet |-> ts, Started |-> 0, Finished |-> 0]

\* Runner.setWorkDir: a default under the home directory when basedir is empty
setWorkDir(rr, basedir, tsName) ==
    [rr EXCEPT !.workdir = IF basedir = "" THEN "HOME/atfrunner/" \o tsName \o "_now"
                           ELSE basedir]

\* Runner.collect with the check of lines 103-105 left out
collect_noNilCheck(rr, fsys, ts) ==
    LET c == Op(fsys, "Collect", rr.input, ~ts.null)
    IN  IF rr.input = ""
        THEN [err |-> "There's no configuration file defined.", r |-> rr, fs |-> fsys]
        ELSE [err |-> NoErr, r |-> [rr EXCEPT !.tr = CreateTestReport(ts)], fs |-> c]

\* Runner.collect: ts is what atf.Collect returns for r.input
collect(rr, fsys, ts) ==
    LET c == Op(fsys, "Collect", rr.input, ~ts.null)
    IN  IF rr.input = ""
        THEN [err |-> "There's no configuration file defined.", r |-> rr, fs |-> fsys]
        ELSE IF ts.null
             THEN [err |-> "Test set is empty.", r |-> rr, fs |-> c]
             ELSE [err |-> NoErr, r |-> [rr EXCEPT !.tr = CreateTestReport(ts)],
                   fs |-> c]

\* --------------------------------------------------------- createLoggers
\* createLoggers with the test of line 174 left out: a syslog handler is asked
\* for whatever the syslog target is
createLoggers_syslogAlways(rr, fsys, format, debug, fOK, lOK, sOK) ==
    LET fLevel == IF debug THEN "Debug" ELSE defFileLevel
        sLevel == IF debug THEN "Debug" ELSE defSyslogLevel
        f == [kind |-> "file", level |-> fLevel, format |-> format]
        l == [kind |-> "stream", level |-> sLevel, format |-> format]
        s == [kind |-> "syslog", level |-> sLevel, format |-> format]
        r1 == [rr EXCEPT !.logger.Handlers = AddHandler(rr.logger, f)]
        r2 == IF lOK THEN [r1 EXCEPT !.logger.Handlers = AddHandler(r1.logger, l)]
                     ELSE r1
        r3 == IF sOK
              THEN [r2 EXCEPT !.logger.Handlers = AddHandler(r2.logger, s)]
              ELSE r2
        o1 == Op(fsys, "NewFileHandler", "", fOK)
        o2 == Op([o1 EXCEPT !.logfile = TRUE], "NewStreamHandler", "", lOK)
        o3 == Op(o2, "NewSyslogHandler", rr.syslog, sOK)
    IN  IF ~fOK
        THEN [err |-> "open logfile", r |-> rr, fs |-> o1]
        ELSE [err |-> NoErr, r |-> r3, fs |-> o3]

\* fOK: utils.NewFileHandler returns a handler and no error;
\* lOK, sOK: utils.NewStreamHandler, utils.NewSyslogHandler return non-nil
createLoggers(rr, fsys, format, debug, fOK, lOK, sOK) ==
    LET fLevel == IF debug THEN "Debug" ELSE defFileLevel
        sLevel == IF debug THEN "Debug" ELSE defSyslogLevel
        f == [kind |-> "file", level |-> fLevel, format |-> format]
        l == [kind |-> "stream", level |-> sLevel, format |-> format]
        s == [kind |-> "syslog", level |-> sLevel, format |-> format]
        r1 == [rr EXCEPT !.logger.Handlers = AddHandler(rr.logger, f)]
        r2 == IF lOK THEN [r1 EXCEPT !.logger.Handlers = AddHandler(r1.logger, l)]
                     ELSE r1
        r3 == IF rr.syslog # "" /\ sOK
              THEN [r2 EXCEPT !.logger.Handlers = AddHandler(r2.logger, s)]
              ELSE r2
        o1 == Op(fsys, "NewFileHandler", "", fOK)
        o2 == Op([o1 EXCEPT !.logfile = TRUE], "NewStreamHandler", "", lOK)
        o3 == IF rr.syslog # "" THEN Op(o2, "NewSyslogHandler", rr.syslog, sOK) ELSE o2
    IN  IF ~fOK
        THEN [err |-> "open logfile", r |-> rr, fs |-> o1]
        ELSE [err |-> NoErr, r |-> r3, fs |-> o3]

\* Runner.createLog logging the confirmation before createLoggers has added the
\* handlers
createLog_logBeforeHandlers(rr, fsys, fOK, lOK, sOK) ==
    LET started == [rr EXCEPT !.logger.started = TRUE]
        logged == [started EXCEPT !.logger =
                      LogCall(started.logger, "Warning", "Log successfully created",
                              "", "runner")]
    IN  IF ~fOK THEN createLoggers(rr, fsys, "%s %s %s", rr.debug, fOK, lOK, sOK)
        ELSE createLoggers(logged, fsys, "%s %s %s", rr.debug, fOK, lOK, sOK)

\* Runner.createLog with the lines 144 and 147 exchanged: the confirmation is
\* logged before the pipeline is started
createLog_logBeforeStart(rr, fsys, fOK, lOK, sOK) ==
    LET c == createLoggers(rr, fsys, "%s %s %s", rr.debug, fOK, lOK, sOK)
        logged == [c.r EXCEPT !.logger =
                      LogCall(c.r.logger, "Warning", "Log successfully created",
                              "", "runner")]
    IN  IF c.err # NoErr
        THEN c
        ELSE [err |-> NoErr,
              r |-> [logged EXCEPT !.logger.started = TRUE],
              fs |-> c.fs]

\* Runner.createLog without the test of lines 141-143: the pipeline is started
\* and the confirmation logged whatever createLoggers returned
createLog_ignoreErr(rr, fsys, fOK, lOK, sOK) ==
    LET c == createLoggers(rr, fsys, "%s %s %s", rr.debug, fOK, lOK, sOK)
        started == [c.r EXCEPT !.logger.started = TRUE]
    IN  [err |-> c.err,
         r |-> [started EXCEPT !.logger =
                   LogCall(started.logger, "Warning", "Log successfully created",
                           "", "runner")],
         fs |-> c.fs]

\* Runner.createLog: build the handlers, start the pipeline, log the confirmation
createLog(rr, fsys, fOK, lOK, sOK) ==
    LET c == createLoggers(rr, fsys, "%s %s %s", rr.debug, fOK, lOK, sOK)
        started == [c.r EXCEPT !.logger.started = TRUE]
    IN  IF c.err # NoErr
        THEN c
        ELSE [err |-> NoErr,
              r |-> [started EXCEPT !.logger =
                        LogCall(started.logger, "Warning", "Log successfully created",
                                "", "runner")],
              fs |-> c.fs]

\* Runner.initialize keeping the report in a local variable: r.tr is not set
initialize_trNotKept(rr, fsys, ts, mkOK, fOK, lOK, sOK) ==
    LET c == collect(rr, fsys, ts)
        w == setWorkDir(rr, rr.workdir, c.r.tr.TestSet.Name)
        m == Op(c.fs, "MkdirAll", w.workdir, mkOK)
    IN  IF c.err # NoErr
        THEN c
        ELSE IF ~mkOK
             THEN [err |-> "mkdir", r |-> w, fs |-> m]
             ELSE createLog(w, [m EXCEPT !.workdir = TRUE], fOK, lOK, sOK)

\* Runner.initialize: collect, resolve and create the working directory, createLog
initialize(rr, fsys, ts, mkOK, fOK, lOK, sOK) ==
    LET c == collect(rr, fsys, ts)
        w == setWorkDir(c.r, c.r.workdir, c.r.tr.TestSet.Name)
        m == Op(c.fs, "MkdirAll", w.workdir, mkOK)
    IN  IF c.err # NoErr
        THEN c
        ELSE IF ~mkOK
             THEN [err |-> "mkdir", r |-> w, fs |-> m]
             ELSE createLog(w, [m EXCEPT !.workdir = TRUE], fOK, lOK, sOK)

\* Runner.SetParallel
SetParallel(rr) == [rr EXCEPT !.par = TRUE]

\* ------------------------------------------------------------------- Run
\* Run, lines 219-227, leaving the sequential start to a parallel executor when
\* r.par is set
RunStart_parallel(rr, now) ==
    LET r1 == [rr EXCEPT !.tr.Started = now]
        r2 == [r1 EXCEPT !.logger = LogCall(r1.logger, "Notice", "Started", "", "runner")]
    IN  IF ~r2.tr.TestSet.null /\ ~rr.par
        THEN [r2 EXCEPT !.logger = LogCall(r2.logger, "Notice", "Starting Test set",
                                           r2.tr.TestSet.Name, "runner")]
        ELSE r2

\* Run, lines 219-227: start timestamp, "Started" line, "Starting Test set" line
RunStart(rr, now) ==
    LET r1 == [rr EXCEPT !.tr.Started = now]
        r2 == [r1 EXCEPT !.logger = LogCall(r1.logger, "Notice", "Started", "", "runner")]
    IN  IF ~r2.tr.TestSet.null
        THEN [r2 EXCEPT !.logger = LogCall(r2.logger, "Notice", "Starting Test set",
                                           r2.tr.TestSet.Name, "runner")]
        ELSE r2

\* the closure fn of Run returning instead of panicking at line 210
Callback_noPanic(rr, params) ==
    IF Len(params) < 2
    THEN [panic |-> FALSE, r |-> rr]
    ELSE [panic |-> FALSE,
          r |-> [rr EXCEPT !.logger = LogCall(rr.logger, params[1], params[2], "",
                                              "callback")]]

\* the closure fn of Run, lines 206-216
Callback(rr, params) ==
    IF Len(params) < 2
    THEN [panic |-> TRUE, r |-> rr]
    ELSE [panic |-> FALSE,
          r |-> [rr EXCEPT !.logger = LogCall(rr.logger, params[1], params[2], "",
                                              "callback")]]

\* Run, lines 229-231 with the lines 230 and 231 exchanged
RunFinish_swapped(rr, now) ==
    LET r1 == [rr EXCEPT !.tr.Finished = now]
        r2 == [r1 EXCEPT !.logger = LogCall(r1.logger, "Notice", "Finished", "", "runner")]
        r3 == [r2 EXCEPT !.logger = LogCall(r2.logger, "Notice", "end",
                                            r2.tr.TestSet.Name, "runner")]
    IN  IF r1.tr.TestSet.null
        THEN [panic |-> TRUE, r |-> r1]
        ELSE [panic |-> FALSE, r |-> r3]

\* Run, lines 229-231: finish timestamp, "end" and "Finished" lines;
\* line 230 dereferences r.tr.TestSet
RunFinish(rr, now) ==
    LET r1 == [rr EXCEPT !.tr.Finished = now]
        r2 == [r1 EXCEPT !.logger = LogCall(r1.logger, "Notice", "end",
                                            r1.tr.TestSet.Name, "runner")]
        r3 == [r2 EXCEPT !.logger = LogCall(r2.logger, "Notice", "Finished", "", "runner")]
    IN  IF r1.tr.TestSet.null
        THEN [panic |-> TRUE, r |-> r1]
        ELSE [panic |-> FALSE, r |-> r3]

\* --------------------------------------------------------------- reports
\* path.Split(p): the base name of a slash-separated path
RECURSIVE LastSlash(_, _)
LastSlash(p, i) == IF i = 0 THEN 0
                   ELSE IF SubSeq(p, i, i) = "/" THEN i ELSE LastSlash(p, i - 1)
BaseName(p) == SubSeq(p, LastSlash(p, Len(p)) + 1, Len(p))

\* os.OpenFile(name, os.O_CREATE|os.O_WRONLY, perm): the file is created when it
\* is absent and is left as it is otherwise (no O_TRUNC)
OpenFile(fsys, name, ok) ==
    IF ok THEN [err |-> NoErr,
                fs |-> Op([fsys EXCEPT !.files[name].exists = TRUE], "OpenFile", name, TRUE)]
          ELSE [err |-> "open " \o name, fs |-> Op(fsys, "OpenFile", name, FALSE)]

\* os.Create(name): the file is created or truncated
OsCreate(fsys, name, ok) ==
    IF ok THEN [err |-> NoErr,
                fs |-> Op([fsys EXCEPT !.files[name] = [exists |-> TRUE, data |-> <<>>]],
                          "Create", name, TRUE)]
          ELSE [err |-> "create " \o name, fs |-> Op(fsys, "Create", name, FALSE)]

\* fmt.Fprint on a file opened with os.O_APPEND: the document goes after what
\* the file holds
Fprint_append(fsys, name, doc) ==
    Op([fsys EXCEPT !.files[name].data = @ \o doc], "Fprint", name, TRUE)

\* fmt.Fprint on a file just opened: the document is written from offset 0 over
\* what the file holds; what lies beyond the document stays
Fprint(fsys, name, doc) ==
    LET old == fsys.files[name].data
    IN  Op([fsys EXCEPT !.files[name].data = doc \o SubSeq(old, Len(doc) + 1, Len(old))],
           "Fprint", name, TRUE)

\* utils.CopyFile(dst, src): ok says whether the copy succeeds
CopyFile(fsys, dst, ok) ==
    IF ok THEN [err |-> NoErr, fs |-> Op([fsys EXCEPT !.css = @ \cup {dst}], "CopyFile", dst, TRUE)]
          ELSE [err |-> "copy " \o dst, fs |-> Op(fsys, "CopyFile", dst, FALSE)]

\* Runner.createHTMLHeader
createHTMLHeader(rr, name) ==
    <<"<!DOCTYPE html><html><head><meta charset=utf-8><title>Report: " \o name
      \o "</title><link href=" \o BaseName(mandatoryCSS) \o "><link href="
      \o BaseName(userCSS) \o "></head>">>

\* the documents createHTMLReport, createXMLReport and createJSONReport build
HTMLDoc(rr) == createHTMLHeader(rr, rr.tr.TestSet.Name)
                 \o <<"<body>", "<p>ok</p>", "</body></html>">>
XMLDoc(rr) == <<"<?xml version=1.0 encoding=UTF-8?>", "<report/>">>
JSONDoc(rr) == <<"{report}">>

\* Runner.createXMLReport opening the file before it renders the document
createXMLReport_openFirst(rr, fsys, filename, e) ==
    LET o == OpenFile(fsys, filename, e.xOpen)
        x == Op(o.fs, "XML", "", e.xRender)
    IN  IF o.err # NoErr THEN o
        ELSE IF ~e.xRender THEN [err |-> "render xml", fs |-> x]
        ELSE [err |-> NoErr, fs |-> Fprint(x, filename, XMLDoc(rr))]

\* Runner.createXMLReport: e.xRender, e.xOpen are the outcomes of r.tr.XML()
\* and os.OpenFile
createXMLReport(rr, fsys, filename, e) ==
    LET x == Op(fsys, "XML", "", e.xRender)
        o == OpenFile(x, filename, e.xOpen)
    IN  IF ~e.xRender THEN [err |-> "render xml", fs |-> x]
        ELSE IF o.err # NoErr THEN o
        ELSE [err |-> NoErr, fs |-> Fprint(o.fs, filename, XMLDoc(rr))]

\* Runner.createJSONReport: e.jRender, e.jCreate are the outcomes of r.tr.JSON()
\* and os.Create
createJSONReport(rr, fsys, filename, e) ==
    LET j == Op(fsys, "JSON", "", e.jRender)
        o == OsCreate(j, filename, e.jCreate)
    IN  IF ~e.jRender THEN [err |-> "render json", fs |-> j]
        ELSE IF o.err # NoErr THEN o
        ELSE [err |-> NoErr, fs |-> Fprint(o.fs, filename, JSONDoc(rr))]

\* Runner.createHTMLReport: e.hRender, e.hOpen, e.css1, e.css2 are the outcomes of
\* r.tr.HTML(), os.OpenFile and the two utils.CopyFile calls; the error of the
\* first copy is overwritten by the error of the second
createHTMLReport(rr, fsys, filename, e) ==
    LET h == Op(fsys, "HTML", "", e.hRender)
        o == OpenFile(h, filename, e.hOpen)
        w == Fprint(o.fs, filename, HTMLDoc(rr))
        c1 == CopyFile(w, BaseName(mandatoryCSS), e.css1)
        c2 == CopyFile(c1.fs, BaseName(userCSS), e.css2)
    IN  IF ~e.hRender THEN [err |-> "render html", fs |-> h]
        ELSE IF o.err # NoErr THEN o
        ELSE [err |-> c2.err, fs |-> c2.fs]

\* the two Error lines CreateReports logs for a failed format
LogFailure(rr, what, cause) ==
    LET r1 == [rr EXCEPT !.logger = LogCall(rr.logger, "Error",
                                            what \o " report could not be created.",
                                            "", "runner")]
    IN  [r1 EXCEPT !.logger = LogCall(r1.logger, "Error", "Reason", cause, "runner")]

\* the Notice line CreateReports logs for a created format
LogCreated(rr, what, filename) ==
    [rr EXCEPT !.logger = LogCall(rr.logger, "Notice", what \o " report created.",
                                  filename, "runner")]

\* what a create*Report call returned to CreateReports
Returned(fsys, fn, e) == Op(fsys, fn, e, e = NoErr)

\* CreateReports, lines 347-357 without the test of r.json
ReportJSON_noFlag(rr, fsys, e) ==
    LET c == createJSONReport(rr, fsys, "report.json", e)
        o == Returned(c.fs, "createJSONReport", c.err)
    IN  IF c.err # NoErr
        THEN [r |-> LogFailure(rr, "JSON", c.err), fs |-> o]
        ELSE [r |-> LogCreated(rr, "JSON", "report.json"), fs |-> o]

\* CreateReports, lines 347-357: the JSON report, upon request
ReportJSON(rr, fsys, e) ==
    LET c == createJSONReport(rr, fsys, "report.json", e)
        o == Returned(c.fs, "createJSONReport", c.err)
    IN  IF ~rr.json THEN [r |-> rr, fs |-> fsys]
        ELSE IF c.err # NoErr
             THEN [r |-> LogFailure(rr, "JSON", c.err), fs |-> o]
             ELSE [r |-> LogCreated(rr, "JSON", "report.json"), fs |-> o]

\* CreateReports, lines 335-357 with the return of line 342 left out
ReportXML_noReturn(rr, fsys, e) ==
    LET c == createXMLReport(rr, fsys, "report.xml", e)
        o == Returned(c.fs, "createXMLReport", c.err)
    IN  IF ~rr.xml THEN ReportJSON(rr, fsys, e)
        ELSE IF c.err # NoErr
             THEN ReportJSON(LogFailure(rr, "XML", c.err), o, e)
             ELSE ReportJSON(LogCreated(rr, "XML", "report.xml"), o, e)

\* CreateReports, lines 335-357: the XML report, if needed, then the JSON report
ReportXML(rr, fsys, e) ==
    LET c == createXMLReport(rr, fsys, "report.xml", e)
        o == Returned(c.fs, "createXMLReport", c.err)
    IN  IF ~rr.xml THEN ReportJSON(rr, fsys, e)
        ELSE IF c.err # NoErr
             THEN [r |-> LogFailure(rr, "XML", c.err), fs |-> o]
             ELSE ReportJSON(LogCreated(rr, "XML", "report.xml"), o, e)

\* Runner.CreateReports with the return of line 331 left out
CreateReports_noReturn(rr, fsys, e) ==
    LET c == createHTMLReport(rr, fsys, "report.html", e)
        o == Returned(c.fs, "createHTMLReport", c.err)
    IN  IF c.err # NoErr
        THEN ReportXML(LogFailure(rr, "XML", c.err), o, e)
        ELSE ReportXML(LogCreated(rr, "HTML", "report.html"), o, e)

\* Runner.CreateReports: HTML always and first; a failure is logged (the HTML
\* failure under the "XML" wording of line 329) and ends the function
CreateReports(rr, fsys, e) ==
    LET c == createHTMLReport(rr, fsys, "report.html", e)
        o == Returned(c.fs, "createHTMLReport", c.err)
    IN  IF c.err # NoErr
        THEN [r |-> LogFailure(rr, "XML", c.err), fs |-> o]
        ELSE ReportXML(LogCreated(rr, "HTML", "report.html"), o, e)

\* utils.Log.Close
Close(logger) == [logger EXCEPT !.closed = TRUE]

\* ------------------------------------------------------------------ main
\* the outcomes of the renderer and of the file system during CreateReports; a
\* call that is made only after another succeeded has an outcome only then
ReportEnvs ==
    {e \in [hRender : BOOLEAN, hOpen : BOOLEAN, css1 : BOOLEAN, css2 : BOOLEAN,
            xRender : BOOLEAN, xOpen : BOOLEAN, jRender : BOOLEAN, jCreate : BOOLEAN] :
        /\ ~e.hRender => e.hOpen
        /\ ~(e.hRender /\ e.hOpen) => e.css1 /\ e.css2
        /\ ~e.xRender => e.xOpen
        /\ ~e.jRender => e.jCreate}

\* the calls CreateReports and the create*Report methods make
ReportOps == {"HTML", "XML", "JSON", "OpenFile", "Create", "Fprint", "CopyFile",
              "createHTMLReport", "createXMLReport", "createJSONReport"}

\* orig: the report files as the latest CreateReports found them
NewFS(files) == [workdir |-> FALSE, logfile |-> FALSE, files |-> files,
                 orig |-> files, css |-> {}, ops |-> <<>>]

\* the outcomes of the collector, of os.MkdirAll and of the handler constructors
InitEnvs == [ts : {NullTS, TheTS}, mkOK : BOOLEAN, fOK : BOOLEAN, lOK : BOOLEAN,
             sOK : BOOLEAN]

\* main, lines 36-38: NewRunner and parseArgs; the working directory is fresh or
\* holds the report files of an earlier run
Init ==
    /\ \E input \in Inputs, workdir \in Workdirs, syslog \in SyslogTargets,
          xml \in BOOLEAN, json \in BOOLEAN, debug \in BOOLEAN :
          r = NewRunner(input, workdir, syslog, xml, json, debug)
    /\ \E f \in FileStates : fs = NewFS([n \in ReportFiles |-> f])
    /\ pc = "initialize"
    /\ err = NoErr
    /\ exitCode = -1
    /\ phases = <<>>
    /\ cbs = <<>>
    /\ clock = 1

\* main, lines 40-47 without the os.Exit(1) of line 46
MainInitialize_noExit ==
    /\ pc = "initialize"
    /\ \E e \in InitEnvs :
          LET i == initialize(r, fs, e.ts, e.mkOK, e.fOK, e.lOK, e.sOK)
          IN  /\ r' = i.r
              /\ fs' = i.fs
              /\ err' = i.err
              /\ pc' = "Run"
              /\ exitCode' = exitCode
    /\ phases' = Append(phases, "initialize")
    /\ clock' = clock + 1
    /\ UNCHANGED cbs

\* main, lines 40-47: r.initialize(); on an error the messages and os.Exit(1)
MainInitialize ==
    /\ pc = "initialize"
    /\ \E e \in InitEnvs :
          LET i == initialize(r, fs, e.ts, e.mkOK, e.fOK, e.lOK, e.sOK)
          IN  /\ r' = i.r
              /\ fs' = i.fs
              /\ err' = i.err
              /\ pc' = IF i.err # NoErr THEN "exited" ELSE "Run"
              /\ exitCode' = IF i.err # NoErr THEN 1 ELSE exitCode
    /\ phases' = Append(phases, "initialize")
    /\ clock' = clock + 1
    /\ UNCHANGED cbs

\* main, line 50: r.Run() up to the call of r.tr.TestSet.Execute(&fn)
MainRun ==
    /\ pc = "Run"
    /\ r' = RunStart(r, clock)
    /\ pc' = IF r.tr.TestSet.null THEN "RunFinish" ELSE "Execute"
    /\ phases' = Append(phases, "Run")
    /\ clock' = clock + 1
    /\ UNCHANGED <<fs, err, exitCode, cbs>>

\* the executor invokes the logging callback; a panic of the closure unwinds
\* through Execute, Run and main and ends the process with exit status 2
ExecuteCallback ==
    /\ pc = "Execute"
    /\ Len(cbs) < MaxCalls
    /\ \E params \in CbParams :
          LET c == Callback(r, params)
          IN  /\ r' = c.r
              /\ pc' = IF c.panic THEN "panicked" ELSE "Execute"
              /\ exitCode' = IF c.panic THEN 2 ELSE exitCode
              /\ cbs' = Append(cbs, params)
    /\ clock' = clock + 1
    /\ UNCHANGED <<fs, err, phases>>

\* r.tr.TestSet.Execute(&fn) returns
ExecuteReturn ==
    /\ pc = "Execute"
    /\ pc' = "RunFinish"
    /\ UNCHANGED <<r, fs, err, exitCode, phases, cbs, clock>>

\* r.Run(), lines 229-231
MainRunFinish ==
    /\ pc = "RunFinish"
    /\ LET f == RunFinish(r, clock)
       IN  /\ r' = f.r
           /\ pc' = IF f.panic THEN "panicked" ELSE "CreateReports"
           /\ exitCode' = IF f.panic THEN 2 ELSE exitCode
    /\ clock' = clock + 1
    /\ UNCHANGED <<fs, err, phases, cbs>>

\* main, line 53, treating a failed report format as fatal
MainCreateReports_fatal ==
    /\ pc = "CreateReports"
    /\ \E e \in ReportEnvs :
          LET c == CreateReports(r, fs, e)
              failed == \E i \in DOMAIN c.fs.ops : ~c.fs.ops[i].ok
          IN  /\ r' = c.r
              /\ fs' = c.fs
              /\ pc' = IF failed THEN "exited" ELSE "Close"
              /\ exitCode' = IF failed THEN 1 ELSE exitCode
    /\ phases' = Append(phases, "CreateReports")
    /\ clock' = clock + 1
    /\ UNCHANGED <<err, cbs>>

\* main, line 53: r.CreateReports()
MainCreateReports ==
    /\ pc = "CreateReports"
    /\ \E e \in ReportEnvs :
          LET c == CreateReports(r, fs, e)
          IN  /\ r' = c.r
              /\ fs' = c.fs
    /\ pc' = "Close"
    /\ phases' = Append(phases, "CreateReports")
    /\ clock' = clock + 1
    /\ UNCHANGED <<err, exitCode, cbs>>

\* main, line 55: r.logger.Close(), then main returns
MainClose ==
    /\ pc = "Close"
    /\ r' = [r EXCEPT !.logger = Close(r.logger)]
    /\ pc' = "done"
    /\ exitCode' = 0
    /\ phases' = Append(phases, "Close")
    /\ clock' = clock + 1
    /\ UNCHANGED <<fs, err, cbs>>

Next ==
    \/ MainInitialize
    \/ MainRun
    \/ ExecuteCallback
    \/ ExecuteReturn
    \/ MainRunFinish
    \/ MainCreateReports
    \/ MainClose

Spec == Init /\ [][Next]_vars

\* r.SetParallel() called between two steps of main
CallSetParallel ==
    /\ pc \in {"initialize", "Run", "CreateReports", "Close"}
    /\ ~r.par
    /\ r' = SetParallel(r)
    /\ UNCHANGED <<fs, pc, err, exitCode, phases, cbs, clock>>

NextPar ==
    \/ MainInitialize
    \/ CallSetParallel
    \/ MainRun
    \/ ExecuteCallback
    \/ ExecuteReturn
    \/ MainRunFinish
    \/ MainCreateReports
    \/ MainClose

\* main with SetParallel called at some point, or not at all
SpecPar == Init /\ [][NextPar]_vars

\* Run() called on an initialized Runner whose report holds a test-set or none
InitRun ==
    /\ \E syslog \in SyslogTargets, xml \in BOOLEAN, json \in BOOLEAN, debug \in BOOLEAN,
          lOK \in BOOLEAN, sOK \in BOOLEAN, ts \in {NullTS, TheTS}, f \in FileStates :
          \E i \in {initialize(NewRunner("cfg.json", "", syslog, xml, json, debug),
                                NewFS([n \in ReportFiles |-> f]), TheTS,
                                TRUE, TRUE, lOK, sOK)} :
             /\ r = [i.r EXCEPT !.tr.TestSet = ts]
             /\ fs = i.fs
    /\ pc = "Run"
    /\ err = NoErr
    /\ exitCode = -1
    /\ phases = <<"initialize">>
    /\ cbs = <<>>
    /\ clock = 2

NextRun ==
    \/ MainRun
    \/ ExecuteCallback
    \/ ExecuteReturn
    \/ MainRunFinish

\* Runner.Run on its own
SpecRun == InitRun /\ [][NextRun]_vars

\* a second r.CreateReports() on the same Runner, after a first one in which
\* every format was written: the same report, flags and working directory
CreateReportsAgain ==
    /\ pc = "Close"
    /\ phases = <<"initialize", "Run", "CreateReports">>
    /\ \A i \in DOMAIN fs.ops : fs.ops[i].op \in ReportOps => fs.ops[i].ok
    /\ \E e \in ReportEnvs :
          LET c == CreateReports(r, [fs EXCEPT !.orig = fs.files], e)
          IN  /\ r' = c.r
              /\ fs' = c.fs
    /\ phases' = Append(phases, "CreateReports")
    /\ clock' = clock + 1
    /\ UNCHANGED <<pc, err, exitCode, cbs>>

NextTwice ==
    \/ MainInitialize
    \/ MainRun
    \/ ExecuteCallback
    \/ ExecuteReturn
    \/ MainRunFinish
    \/ MainCreateReports
    \/ CreateReportsAgain
    \/ MainClose

\* main with CreateReports called twice
SpecTwice == Init /\ [][NextTwice]_vars

\* ================================================================ claims
Range(s) == {s[i] : i \in DOMAIN s}
Ops == fs.ops
Calls == r.logger.calls
OpNames == {Ops[i].op : i \in DOMAIN Ops}
\* the outcome of the one call of op, when it was made
Failed(op) == \E i \in DOMAIN Ops : Ops[i].op = op /\ ~Ops[i].ok
Succeeded(op) == \E i \in DOMAIN Ops : Ops[i].op = op /\ Ops[i].ok
\* an Error-level "could not be created" line followed by the Error-level
\* "Reason" line carrying the cause
ErrorLogged(cause) ==
    \E k \in DOMAIN Calls :
        /\ k > 1
        /\ Calls[k].lvl = "Error" /\ Calls[k].msg = "Reason" /\ Calls[k].arg = cause
        /\ Calls[k - 1].lvl = "Error"
ConfigErrors == {"There's no configuration file defined.", "Test set is empty."}
XMLOps == {"createXMLReport", "XML"}
JSONOps == {"createJSONReport", "JSON", "Create"}

\* C1: initialize() called with an empty input path, or with an input for which
\* the collector returns no test-set, returns a configuration error; then no
\* working directory, log file or handler is created, the pipeline is not started
\* and no log line is emitted.
C1_ConfigErrorLeavesNothing ==
    ("initialize" \in Range(phases) /\ (r.input = "" \/ Failed("Collect"))) =>
        /\ err \in ConfigErrors
        /\ ~fs.workdir /\ "MkdirAll" \notin OpNames
        /\ ~fs.logfile /\ "NewFileHandler" \notin OpNames
        /\ r.logger.Handlers = <<>>
        /\ ~r.logger.started
        /\ Calls = <<>>

C1_Witness ==
    /\ "initialize" \in Range(phases)
    /\ r.input # "" /\ Failed("Collect")
    /\ err = "Test set is empty."

\* C2: if createHTMLReport returns an error during CreateReports(), an Error-level
\* line with the cause is logged and neither the XML nor the JSON report is
\* attempted, whatever the xml and json flags are.
C2_HTMLFailureSkipsXMLAndJSON ==
    \A i \in DOMAIN Ops :
        (Ops[i].op = "createHTMLReport" /\ ~Ops[i].ok) =>
            /\ ErrorLogged(Ops[i].arg)
            /\ OpNames \cap (XMLOps \cup JSONOps) = {}
            /\ i = Len(Ops)

C2_Witness == Failed("createHTMLReport") /\ r.xml /\ r.json /\ pc = "done"

\* C3: if the XML report was requested and createXMLReport returns an error, the
\* failure is logged at Error level with its cause and CreateReports() returns
\* without attempting the JSON report, even when JSON was requested.
C3_XMLFailureSkipsJSON ==
    \A i \in DOMAIN Ops :
        (Ops[i].op = "createXMLReport" /\ ~Ops[i].ok) =>
            /\ r.xml
            /\ ErrorLogged(Ops[i].arg)
            /\ OpNames \cap JSONOps = {}
            /\ i = Len(Ops)

C3_Witness == Failed("createXMLReport") /\ r.json /\ pc = "done"

\* C4: after report.html is written, a failed copy of the mandatory CSS file or
\* of the user-supplied CSS file makes createHTMLReport return an error, so
\* CreateReports() logs an Error and skips XML and JSON.
C4_CSSCopyFailureIsAnError ==
    Failed("CopyFile") =>
        /\ Failed("createHTMLReport")
        /\ \E k \in DOMAIN Calls : Calls[k].lvl = "Error"
        /\ OpNames \cap (XMLOps \cup JSONOps) = {}

\* the documents a successful run leaves in the report files
DocOf(name) == IF name = "report.html" THEN HTMLDoc(r)
               ELSE IF name = "report.xml" THEN XMLDoc(r) ELSE JSONDoc(r)
Written(name) == \E i \in DOMAIN Ops : Ops[i].op = "Fprint" /\ Ops[i].arg = name

\* C5: after a report format is written, its file holds exactly the new document,
\* whatever a file of that name held before.
C5_WriteReplacesContent ==
    \A name \in ReportFiles : Written(name) => fs.files[name].data = DocOf(name)

Lifecycle == <<"initialize", "Run", "CreateReports", "Close">>

\* C6: the phases initialize, Run, CreateReports, logger Close occur in this
\* order, each at most once; Run and CreateReports are executed only if
\* initialize() returned no error, and if it failed the process exits non-zero
\* without executing Run, CreateReports or Close.
C6_LifecycleOrder ==
    /\ Len(phases) <= Len(Lifecycle)
    /\ phases = SubSeq(Lifecycle, 1, Len(phases))
    /\ r.logger.closed => "Close" \in Range(phases)
    /\ (Range(phases) \cap {"Run", "CreateReports"} # {}) => err = NoErr
    /\ err # NoErr => /\ phases = <<"initialize">>
                      /\ pc = "exited"
                      /\ exitCode = 1
                      /\ ~r.logger.closed

C6_Witness == pc = "done" /\ phases = Lifecycle /\ exitCode = 0

\* C7: whenever Run() or CreateReports() executes, r.tr and its test-set are
\* non-null: a successful initialize() sets them and nothing resets them.
C7_ReportNonNull ==
    (pc \in {"Run", "Execute", "RunFinish", "CreateReports"}
        \/ Range(phases) \cap {"Run", "CreateReports"} # {}) =>
            /\ ~r.tr.null
            /\ ~r.tr.TestSet.null
            /\ r.tr.TestSet = TheTS

C7_Witness == "CreateReports" \in Range(phases) /\ ~r.tr.null /\ ~r.tr.TestSet.null

\* the log calls the callback forwarded, and the invocations that had to forward
CallbackLines == SelectSeq(Calls, LAMBDA c : c.src = "callback")
Forwardable == SelectSeq(cbs, LAMBDA p : Len(p) >= 2)
RunnerMsgs == {Calls[k].msg : k \in {j \in DOMAIN Calls : Calls[j].src = "runner"}}

\* C8: a callback invocation with fewer than two arguments aborts the process at
\* that point: nothing is forwarded for it, the finish timestamp is not recorded,
\* the "end" and "Finished" lines are not logged and CreateReports is not reached.
\* An invocation with (level, message) forwards exactly one log call with that
\* level and message.
C8_CallbackArity ==
    /\ \A i \in DOMAIN cbs :
          Len(cbs[i]) < 2 =>
              /\ i = Len(cbs)
              /\ pc = "panicked"
              /\ r.tr.Finished = 0
              /\ RunnerMsgs \cap {"end", "Finished"} = {}
              /\ "CreateReports" \notin Range(phases)
              /\ "createHTMLReport" \notin OpNames
    /\ Len(CallbackLines) = Len(Forwardable)
    /\ \A k \in DOMAIN CallbackLines :
          /\ CallbackLines[k].lvl = Forwardable[k][1]
          /\ CallbackLines[k].msg = Forwardable[k][2]

C8_Witness ==
    /\ pc = "panicked"
    /\ Len(cbs) = 2 /\ Len(cbs[1]) = 2 /\ Len(cbs[2]) < 2
    /\ Len(CallbackLines) = 1

\* the level, message and origin of each log call
Shape(c) == <<c.lvl, c.msg, c.src>>
Shapes(cs) == [k \in DOMAIN cs |-> Shape(cs[k])]
RunHead == <<<<"Warning", "Log successfully created", "runner">>,
             <<"Notice", "Started", "runner">>,
             <<"Notice", "Starting Test set", "runner">>>>
RunTail == <<<<"Notice", "end", "runner">>, <<"Notice", "Finished", "runner">>>>
ForwardedShapes == [k \in DOMAIN Forwardable |->
                       <<Forwardable[k][1], Forwardable[k][2], "callback">>]

\* C9: within Run() the start timestamp is recorded and logged at Notice, then
\* comes the Notice "Starting Test set" line, then the callback log calls in
\* invocation order, and only after the executor returned the finish timestamp
\* and the Notice "end" and "Finished" lines, in that order.
C9_RunOrder ==
    /\ pc \in {"Execute", "panicked"} =>
          /\ Shapes(Calls) = RunHead \o ForwardedShapes
          /\ r.tr.Started # 0 /\ r.tr.Finished = 0
    /\ pc = "RunFinish" =>
          /\ Shapes(Calls) = RunHead \o ForwardedShapes
          /\ r.tr.Finished = 0
    /\ pc = "CreateReports" =>
          /\ Shapes(Calls) = RunHead \o ForwardedShapes \o RunTail
          /\ r.tr.Started # 0 /\ r.tr.Finished > r.tr.Started
    /\ pc \in {"Close", "done"} =>
          LET n == Len(RunHead) + Len(Forwardable) + Len(RunTail)
          IN  /\ SubSeq(Shapes(Calls), 1, n) = RunHead \o ForwardedShapes \o RunTail
              /\ \A k \in DOMAIN Calls : k > n => Calls[k].src = "runner"

C9_Witness == pc = "CreateReports" /\ Len(cbs) = 2 /\ Len(CallbackLines) = 2

Kinds == [k \in DOMAIN r.logger.Handlers |-> r.logger.Handlers[k].kind]
CreateLoggersCalled == "NewFileHandler" \in OpNames

\* C10 as stated: on success the handlers are a file handler, a stream handler
\* and a syslog handler iff the syslog target is non-empty; an error is returned
\* only when the file handler cannot be created.
C10_HandlersAsStated ==
    CreateLoggersCalled =>
        /\ err # NoErr <=> Failed("NewFileHandler")
        /\ err = NoErr =>
              Kinds = <<"file", "stream">>
                        \o (IF r.syslog # "" THEN <<"syslog">> ELSE <<>>)

\* C10 (amended): on success the handlers are, in insertion order, the file
\* handler, the stream handler if its construction succeeded, and a syslog
\* handler iff the syslog target is non-empty and its construction succeeded; an
\* error is returned only when the file handler cannot be created.
C10_HandlersThatSucceeded ==
    CreateLoggersCalled =>
        /\ err # NoErr <=> Failed("NewFileHandler")
        /\ err # NoErr => r.logger.Handlers = <<>>
        /\ err = NoErr =>
              /\ Kinds = <<"file">>
                           \o (IF Succeeded("NewStreamHandler") THEN <<"stream">> ELSE <<>>)
                           \o (IF Succeeded("NewSyslogHandler") THEN <<"syslog">> ELSE <<>>)
              /\ "NewStreamHandler" \in OpNames
              /\ "NewSyslogHandler" \in OpNames <=> r.syslog # ""

C10_Witness ==
    /\ err = NoErr /\ r.logger.started
    /\ r.syslog # "" /\ Failed("NewSyslogHandler")
    /\ Kinds = <<"file", "stream">>

\* the minimum severity the handlers are said to have
StatedLevel(kind, debug) ==
    IF kind = "syslog" THEN "Notice"
    ELSE IF debug THEN "Debug"
    ELSE IF kind = "file" THEN "Informational" ELSE "Notice"

\* C11: the handlers have minimum severities file = Informational, stream =
\* Notice, syslog = Notice when debug is off; with debug on the file and stream
\* handlers have Debug and the syslog handler keeps Notice.
C11_HandlerLevels ==
    \A k \in DOMAIN r.logger.Handlers :
        r.logger.Handlers[k].level = StatedLevel(r.logger.Handlers[k].kind, r.debug)

\* C13: every log call is made on a pipeline that has been started and has not
\* been closed.
C13_CallsBetweenStartAndClose ==
    /\ \A k \in DOMAIN Calls : Calls[k].started /\ ~Calls[k].closed
    /\ Calls # <<>> => r.logger.started
    /\ r.logger.closed => pc = "done"

C13_Witness == pc = "done" /\ r.logger.closed /\ Len(Calls) >= 8 /\ CallbackLines # <<>>

ReportFailed == \E i \in DOMAIN Ops : Ops[i].op \in ReportOps /\ ~Ops[i].ok

\* C14: a failure of any report format during CreateReports() is not fatal:
\* CreateReports() returns, the logger is closed next and the process ends
\* normally, not through the non-zero exit.
C14_ReportFailureNotFatal ==
    ReportFailed =>
        /\ pc \in {"Close", "done"}
        /\ exitCode \in {-1, 0}
        /\ pc = "Close" => ~r.logger.closed /\ exitCode = -1
        /\ pc = "done" => r.logger.closed /\ exitCode = 0 /\ phases = Lifecycle

C14_Witness == Failed("createXMLReport") /\ pc = "done" /\ exitCode = 0

\* the position in Ops of the first call of op on arg, 0 when there is none
FirstOp(op, arg) ==
    IF \E i \in DOMAIN Ops : Ops[i].op = op /\ Ops[i].arg = arg
    THEN CHOOSE i \in DOMAIN Ops :
            /\ Ops[i].op = op /\ Ops[i].arg = arg
            /\ \A j \in 1..(i - 1) : ~(Ops[j].op = op /\ Ops[j].arg = arg)
    ELSE 0
Touched(name) == \E i \in DOMAIN Ops : Ops[i].op \in {"OpenFile", "Create", "Fprint"}
                                        /\ Ops[i].arg = name

\* C16: every CreateReports() attempts the HTML report first; report.xml is
\* written only if the xml flag is set, report.json only if the json flag is
\* set, and when both are written XML is written before JSON.
C16_ReportOrder ==
    /\ "CreateReports" \in Range(phases) =>
          \E i \in DOMAIN Ops :
              /\ Ops[i].op = "HTML"
              /\ \A j \in 1..(i - 1) : Ops[j].op \notin ReportOps
    /\ Touched("report.xml") \/ "XML" \in OpNames => r.xml
    /\ Touched("report.json") \/ "JSON" \in OpNames => r.json
    /\ Written("report.xml") => fs.files["report.xml"].exists
    /\ (Written("report.xml") /\ Written("report.json")) =>
          /\ FirstOp("Fprint", "report.html") < FirstOp("Fprint", "report.xml")
          /\ FirstOp("Fprint", "report.xml") < FirstOp("Create", "report.json")

C16_Witness == Written("report.xml") /\ Written("report.json") /\ pc = "done"

Confirmations == SelectSeq(Calls, LAMBDA c : c.msg = "Log successfully created")

\* C18: initialize() emits the Warning "Log successfully created" line exactly
\* once iff it succeeds, after the pipeline is started and as the first log call;
\* when the working directory or the file handler cannot be created it returns
\* an error, the pipeline is not started and no log line is emitted.
C18_ConfirmationIffSuccess ==
    "initialize" \in Range(phases) =>
        /\ err = NoErr <=> Len(Confirmations) = 1
        /\ err # NoErr => Confirmations = <<>>
        /\ err = NoErr =>
              /\ Shape(Calls[1]) = <<"Warning", "Log successfully created", "runner">>
              /\ Calls[1].started
        /\ (Failed("MkdirAll") \/ Failed("NewFileHandler")) =>
              /\ err # NoErr
              /\ ~r.logger.started
              /\ Calls = <<>>

C18_Witness == Failed("NewFileHandler") /\ err # NoErr /\ fs.workdir /\ pc = "exited"

Untouched(name) == fs.files[name] = fs.orig[name] /\ ~Touched(name)

\* C20: if the renderer fails for a format, that format's file is neither
\* created nor modified, no CSS file is copied for a failed HTML render, an
\* Error is logged and the remaining formats are skipped.
C20_RenderFailure ==
    /\ Failed("HTML") =>
          /\ Untouched("report.html")
          /\ fs.css = {} /\ "CopyFile" \notin OpNames
          /\ ErrorLogged("render html")
          /\ OpNames \cap (XMLOps \cup JSONOps) = {}
          /\ Untouched("report.xml") /\ Untouched("report.json")
    /\ Failed("XML") =>
          /\ Untouched("report.xml")
          /\ ErrorLogged("render xml")
          /\ OpNames \cap JSONOps = {}
          /\ Untouched("report.json")
    /\ Failed("JSON") =>
          /\ Untouched("report.json")
          /\ ErrorLogged("render json")
          /\ Ops[Len(Ops)].op = "createJSONReport"

C20_Witness == Failed("XML") /\ r.json /\ fs.orig["report.xml"].exists /\ pc = "done"

Handlers == r.logger.Handlers
Deliv == r.logger.deliv
Received(k, n) == \E i \in DOMAIN Deliv : Deliv[i].h = k /\ Deliv[i].n = n
SeverityOrder == <<"Debug", "Informational", "Notice", "Warning", "Error">>
SeverityRank == [sev \in Range(SeverityOrder) |->
                    CHOOSE i \in DOMAIN SeverityOrder : SeverityOrder[i] = sev]

Twice == Len(SelectSeq(phases, LAMBDA ph : ph = "CreateReports")) = 2

\* C15: CreateReports() run twice with the same report, flags and a writable
\* working directory leaves report.html, report.xml and report.json with the
\* same contents after the second run as after the first.
C15_Idempotent ==
    (Twice /\ ~ReportFailed) =>
        /\ fs.files = fs.orig
        /\ fs.files["report.html"].exists
        /\ fs.css = {BaseName(mandatoryCSS), BaseName(userCSS)}

C15_Witness ==
    /\ Twice /\ ~ReportFailed /\ pc = "done"
    /\ r.xml /\ r.json
    /\ Len(fs.files["report.xml"].data) > Len(XMLDoc(r))
    /\ Len(SelectSeq(Ops, LAMBDA o : o.op = "Fprint")) = 6

\* the Runner with the other value of the parallel flag, and without the flag
Flip(rr) == [rr EXCEPT !.par = ~@]
NoPar(rr) == [rr EXCEPT !.par = FALSE]

\* the outcomes the collaborators had in a trace of calls
FailedIn(ops, op, arg) ==
    \E i \in DOMAIN ops : ops[i].op = op /\ ops[i].arg = arg /\ ~ops[i].ok
InitEnvOf(ops) ==
    [ts |-> IF \E i \in DOMAIN ops : ops[i].op = "Collect" /\ ~ops[i].ok
            THEN NullTS ELSE TheTS,
     mkOK |-> \A i \in DOMAIN ops : ops[i].op = "MkdirAll" => ops[i].ok,
     fOK |-> ~FailedIn(ops, "NewFileHandler", ""),
     lOK |-> ~FailedIn(ops, "NewStreamHandler", ""),
     sOK |-> \A i \in DOMAIN ops : ops[i].op = "NewSyslogHandler" => ops[i].ok]
ReportEnvOf(ops) ==
    [hRender |-> ~FailedIn(ops, "HTML", ""),
     hOpen |-> ~FailedIn(ops, "OpenFile", "report.html"),
     css1 |-> ~FailedIn(ops, "CopyFile", BaseName(mandatoryCSS)),
     css2 |-> ~FailedIn(ops, "CopyFile", BaseName(userCSS)),
     xRender |-> ~FailedIn(ops, "XML", ""),
     xOpen |-> ~FailedIn(ops, "OpenFile", "report.xml"),
     jRender |-> ~FailedIn(ops, "JSON", ""),
     jCreate |-> ~FailedIn(ops, "Create", "report.json")]

\* the result c of a method is, but for the flag, the Runner rr and the files fsys
SameResult(c, rr, fsys) == [r |-> NoPar(c.r), fs |-> c.fs] = [r |-> NoPar(rr), fs |-> fsys]
SameInit(e, er) ==
    LET i == initialize(Flip(r), fs, e.ts, e.mkOK, e.fOK, e.lOK, e.sOK)
    IN  [i EXCEPT !.r = NoPar(@)] = [err |-> er, r |-> NoPar(r'), fs |-> fs']

\* the step just taken, taken from the state with the parallel flag flipped,
\* gives the same log calls, executor invocations, file writes and position
ParStep ==
    \/ /\ pc = "initialize" /\ pc' # pc
       /\ \E e \in {InitEnvOf(fs'.ops)} : SameInit(e, err')
    \/ /\ pc = "Run" /\ pc' # pc
       /\ NoPar(RunStart(Flip(r), clock)) = NoPar(r') /\ fs' = fs
    \/ /\ pc = "Execute" /\ cbs' # cbs
       /\ LET c == Callback(Flip(r), cbs'[Len(cbs')])
          IN  NoPar(c.r) = NoPar(r') /\ (c.panic <=> pc' = "panicked") /\ fs' = fs
    \/ /\ pc = "Execute" /\ pc' = "RunFinish"
       /\ r' = r /\ fs' = fs /\ cbs' = cbs
    \/ /\ pc = "RunFinish"
       /\ LET f == RunFinish(Flip(r), clock)
          IN  NoPar(f.r) = NoPar(r') /\ (f.panic <=> pc' = "panicked") /\ fs' = fs
    \/ /\ pc = "CreateReports" /\ pc' # pc
       /\ \E e \in {ReportEnvOf(fs'.ops)} :
             \E c \in {CreateReports(Flip(r), fs, e)} : SameResult(c, r', fs')
    \/ /\ pc = "Close" /\ pc' # pc
       /\ NoPar([Flip(r) EXCEPT !.logger = Close(@)]) = NoPar(r') /\ fs' = fs
    \/ /\ pc' = pc
       /\ NoPar(r') = NoPar(r)
       /\ UNCHANGED <<fs, err, exitCode, phases, cbs, clock>>

\* C17: the parallel flag is inert: from two states that differ only in the flag
\* (also after SetParallel) every step produces the same log calls, executor
\* invocations and file writes, so two executions that differ only in the flag
\* produce the same sequences.
C17_ParallelInert == [][ParStep]_vars

C17_Witness ==
    /\ r.par /\ pc = "done"
    /\ CallbackLines # <<>>
    /\ Written("report.html")

====
